---- MODULE Spec2Model ----
(***************************************************************************)
(* Model of the request-to-prediction pipeline of the trip-duration API    *)
(* (src/deployscript.py): predict builds a DataFrame from the submitted    *)
(* records, validates it, converts the two timestamp columns, derives the  *)
(* pickup calendar features, standardizes / one-hot encodes and hands the  *)
(* matrix to the loaded model.                                             *)
(*                                                                         *)
(* Cells of a record or DataFrame are <<v>> for a present value v and <<>> *)
(* for a null (JSON null, None, NaN, or a key the record does not carry).  *)
(* A timestamp text "YYYY-MM-DD hh:mm:ss" is the tuple of its six numeric  *)
(* fields; a parsed timestamp (datetime64) is a count of seconds since     *)
(* 1970-01-01 00:00:00 (the inputs carry no sub-second part).              *)
(***************************************************************************)
EXTENDS Integers, Sequences, FiniteSets

VARIABLES pc, data, df, failed_expectations, X_processed, preds, error, reached

vars == <<pc, data, df, failed_expectations, X_processed, preds, error, reached>>

\* ------------------------------------------------------------------ bounds
\* Largest number of records in one submitted batch.
MaxRows == 2
\* trip_distance values 1..MaxDist are submitted.
MaxDist == 2
\* Pick-up years 2023..2023+YearSpan-1 are submitted to the calendar
\* specification.
YearSpan == 2

\* ------------------------------------------------------------- small helpers
NULL == <<>>

Some(v) == <<v>>

IsNull(cell) == cell = NULL

Range(s) == {s[i] : i \in DOMAIN s}

Reverse(s) == [i \in DOMAIN s |-> s[Len(s) + 1 - i]]

RECURSIVE SumSeq(_)
SumSeq(s) == IF s = <<>> THEN 0 ELSE Head(s) + SumSeq(Tail(s))

RECURSIVE GCD(_, _)
GCD(a, b) == IF b = 0 THEN a ELSE GCD(b, a % b)

\* ---------------------------------------------------------- Schema Contract
columns ==
    << "VendorID", "lpep_pickup_datetime", "lpep_dropoff_datetime",
       "store_and_fwd_flag", "RatecodeID", "PULocationID", "DOLocationID",
       "passenger_count", "trip_distance", "fare_amount", "extra", "mta_tax",
       "tip_amount", "tolls_amount", "ehail_fee", "improvement_surcharge",
       "total_amount", "payment_type", "trip_type", "congestion_surcharge" >>

\* value_set of the store_and_fwd_flag expectation
value_set == {"Y", "N"}

\* ------------------------------------------------------------------ inputs
\* The text "2024-03-11 14:05:09", a Monday.
TsA == <<2024, 3, 11, 14, 5, 9>>

\* The text "2025-01-05 23:45:00", a Sunday.
TsB == <<2025, 1, 5, 23, 45, 0>>

\* The text "2024-13-01 00:00:00": month 13, no date-time.
TsBad == <<2024, 13, 1, 0, 0, 0>>

\* One record as the front end builds it (input_data): every contract key,
\* drop-off equal to pick-up, total_amount the sum of its parts; "notes" is
\* a value for a key outside the contract, used only when the record's key
\* layout carries that key.
TripRecord(flag, pickup, dist) ==
    [c \in Range(columns) \cup {"notes"} |->
        CASE c = "lpep_pickup_datetime" -> Some(pickup)
          [] c = "lpep_dropoff_datetime" -> Some(pickup)
          [] c = "store_and_fwd_flag" -> Some(flag)
          [] c = "PULocationID" -> Some(74)
          [] c = "DOLocationID" -> Some(168)
          [] c = "trip_distance" -> Some(dist)
          [] c = "fare_amount" -> Some(3 * dist)
          [] c = "total_amount" -> Some(3 * dist + 3)
          [] c \in {"tip_amount", "tolls_amount", "ehail_fee",
                    "congestion_surcharge"} -> Some(0)
          [] c = "notes" -> Some("n/a")
          [] OTHER -> Some(1)]

\* Records whose every value is individually valid.
ValidRows ==
    {TripRecord(f, TsA, d) : f \in value_set, d \in 1..MaxDist}
        \cup {TripRecord("N", TsB, 1)}

\* A valid record with one contract column set to null, for every column.
NullRows ==
    {[TripRecord("N", TsA, 1) EXCEPT ![c] = NULL] : c \in Range(columns)}

\* A flag outside {"Y","N"}, and a pick-up text that is no date-time.
FlagRows == {TripRecord("X", TsA, 1)}

BadTimeRows == {TripRecord("N", TsBad, 1)}

Rows == ValidRows \cup NullRows \cup FlagRows \cup BadTimeRows

\* Key sequences a submitted record may carry: the contract's, two
\* reorderings of it, one with a contract key missing, one with a key the
\* contract does not know.
SwapFirstTwo(s) ==
    [i \in DOMAIN s |-> IF i = 1 THEN s[2] ELSE IF i = 2 THEN s[1] ELSE s[i]]

KeyLayouts ==
    { columns,
      SwapFirstTwo(columns),
      Reverse(columns),
      SubSeq(columns, 1, Len(columns) - 1),
      Append(columns, "notes") }

\* A JSON object: its keys in the order submitted, and the value of each.
Dict(keys, row) == [keys |-> keys, vals |-> [k \in Range(keys) |-> row[k]]]

\* The body of a POST /predict, {"data": [record, ...]}: the rows of a
\* batch, each under the same key sequence.
Body(keys, batch) == [i \in DOMAIN batch |-> Dict(keys, batch[i])]

\* Pick-up texts of the calendar specification (day 29..31 of a short month
\* is no date).
CalendarTexts ==
    {<<2023 + y, m, d, t[1], t[2], t[3]>> :
        y \in 0..(YearSpan - 1), m \in 1..12, d \in {1, 11, 28, 29, 30, 31},
        t \in {<<0, 0, 0>>, <<14, 5, 9>>, <<23, 59, 59>>}}

\* ---------------------------------------------------------------- DataFrame
\* pd.DataFrame(data["data"], columns=columns): the frame's columns are the
\* contract's, in the contract's order, whatever the records' key order; a
\* key a record lacks gives a null cell, a key outside the contract is
\* dropped.
DataFrame(records, cols) ==
    [columns |-> cols,
     rows |-> [i \in DOMAIN records |->
                LET record == records[i]
                    keys == Range(record.keys)
                IN  [c \in Range(cols) |->
                        IF c \in keys THEN record.vals[c] ELSE NULL]]]

EmptyFrame == [columns |-> <<>>, rows |-> <<>>]

\* ---------------------------------------------------------- Validation Gate
\* ExpectColumnValuesToNotBeNull(column=col): no cell of the column is null.
ExpectColumnValuesToNotBeNull(frame, col) ==
    \A i \in DOMAIN frame.rows : ~IsNull(frame.rows[i][col])

\* A value-set check that looks at the first row only.
InSetFirstRowOnly(frame, col, set) ==
    IsNull(frame.rows[1][col]) \/ frame.rows[1][col][1] \in set

\* ExpectColumnValuesToBeInSet(column, value_set): every non-null cell of
\* the column is in the set (nulls are the not-null expectation's concern).
ExpectColumnValuesToBeInSet(frame, col, set) ==
    \A i \in DOMAIN frame.rows :
        IsNull(frame.rows[i][col]) \/ frame.rows[i][col][1] \in set

\* ExpectTableColumnsToMatchOrderedList(column_list): the frame's columns
\* are the list, in its order.
ExpectTableColumnsToMatchOrderedList(frame, column_list) ==
    frame.columns = column_list

\* Not-null expectations that stop one column short of the contract.
NullExpectationsButLast ==
    [i \in 1..(Len(columns) - 1) |-> [kind |-> "not_null", column |-> columns[i]]]

\* The suite in the order the expectations are added: one not-null
\* expectation per contract column, the flag's value set, the column order.
null_expectations == [i \in DOMAIN columns |-> [kind |-> "not_null", column |-> columns[i]]]

suite ==
    null_expectations
        \o << [kind |-> "in_set", column |-> "store_and_fwd_flag"],
              [kind |-> "ordered_list", column |-> "*"] >>

Expectation(frame, e) ==
    CASE e.kind = "not_null" -> ExpectColumnValuesToNotBeNull(frame, e.column)
      [] e.kind = "in_set" -> ExpectColumnValuesToBeInSet(frame, e.column, value_set)
      [] OTHER -> ExpectTableColumnsToMatchOrderedList(frame, columns)

\* batch.validate(suite): every expectation of the suite is evaluated; the
\* result carries one entry per expectation.
validation_results(frame) ==
    [i \in DOMAIN suite |-> [expectation |-> suite[i], success |-> Expectation(frame, suite[i])]]

\* A validation that stops at the first failed expectation.
FailedExpectationsShortCircuit(frame) ==
    LET bad == {i \in DOMAIN suite : ~Expectation(frame, suite[i])}
    IN  IF bad = {} THEN <<>>
        ELSE <<suite[CHOOSE i \in bad : \A j \in bad : i <= j]>>

\* The expectations whose result is not a success, in suite order.
FailedExpectations(frame) ==
    LET res == validation_results(frame)
        IsFailed(r) == ~r.success
        failed == SelectSeq(res, IsFailed)
    IN  [i \in DOMAIN failed |-> failed[i].expectation]

\* ------------------------------------------------------------- pd.to_datetime
is_leapyear(year) == (year % 4 = 0) /\ ((year % 100 # 0) \/ (year % 400 = 0))

days_per_month_table(year) ==
    IF is_leapyear(year)
    THEN <<31, 29, 31, 30, 31, 30, 31, 31, 30, 31, 30, 31>>
    ELSE <<31, 28, 31, 30, 31, 30, 31, 31, 30, 31, 30, 31>>

\* Whether the text names a date-time at all.
Parseable(text) ==
    /\ text[2] \in 1..12
    /\ text[3] >= 1
    /\ text[3] <= days_per_month_table(text[1])[text[2]]
    /\ text[4] \in 0..23
    /\ text[5] \in 0..59
    /\ text[6] \in 0..59

\* Days from 1970-01-01 to the date, for years from 1970 on: 365 per year,
\* plus the leap days before the year (one per 4 years since 1968, none per
\* 100 years since 1900, one per 400 years since 1600), plus the months and
\* days before the date.
get_datetimestruct_days(y, m, d) ==
    LET year == y - 1970
        y1 == year + 1
        y2 == y1 + 68
        y3 == y2 + 300
        days == year * 365 + (y1 \div 4) - (y2 \div 100) + (y3 \div 400)
    IN  days + SumSeq(SubSeq(days_per_month_table(y), 1, m - 1)) + (d - 1)

\* pd.to_datetime of one text: seconds since the epoch.
to_datetime(text) ==
    get_datetimestruct_days(text[1], text[2], text[3]) * 86400
        + text[4] * 3600 + text[5] * 60 + text[6]

\* --------------------------------------------------------------- .dt fields
\* The year of a day count and the day within that year: relative to 2000,
\* by 400-year, 100-year, 4-year cycles and years.
days_to_yearsdays(epoch_days) ==
    LET d0 == epoch_days - (365 * 30 + 7)
        q400 == 400 * 365 + 100 - 4 + 1
        q100 == 100 * 365 + 25 - 1
        q4 == 4 * 365 + 1
        y400 == 400 * (d0 \div q400)
        d400 == d0 % q400
        y100 == IF d400 >= 366 THEN 100 * ((d400 - 1) \div q100) ELSE 0
        d100 == IF d400 >= 366 THEN (d400 - 1) % q100 ELSE d400
        in4 == d400 >= 366 /\ d100 >= 365
        y4 == IF in4 THEN 4 * ((d100 + 1) \div q4) ELSE 0
        d4 == IF in4 THEN (d100 + 1) % q4 ELSE d100
        in1 == in4 /\ d4 >= 366
        y1 == IF in1 THEN (d4 - 1) \div 365 ELSE 0
        d1 == IF in1 THEN (d4 - 1) % 365 ELSE d4
    IN  [year |-> 2000 + y400 + y100 + y4 + y1, days |-> d1]

\* The month (1..12) and day of month of a day within a year.
RECURSIVE MonthDay(_, _, _)
MonthDay(lengths, month, days) ==
    IF days < lengths[month] THEN [month |-> month, day |-> days + 1]
    ELSE MonthDay(lengths, month + 1, days - lengths[month])

\* Day of the week with 0 for Sunday (the conversion to Monday = 0 left out).
DayOfWeekSundayFirst(y, m, d) ==
    LET sakamoto_arr == <<0, 3, 2, 5, 0, 3, 5, 1, 4, 6, 2, 4>>
        yy == IF m < 3 THEN y - 1 ELSE y
    IN  (yy + (yy \div 4) - (yy \div 100) + (yy \div 400) + sakamoto_arr[m] + d) % 7

\* Day of the week of a date from its year, month and day: 0 is Monday.
dayofweek(y, m, d) ==
    LET sakamoto_arr == <<0, 3, 2, 5, 0, 3, 5, 1, 4, 6, 2, 4>>
        yy == IF m < 3 THEN y - 1 ELSE y
        day == (yy + (yy \div 4) - (yy \div 100) + (yy \div 400)
                    + sakamoto_arr[m] + d) % 7
    IN  (day + 6) % 7

\* The calendar fields of a parsed timestamp.
datetimestruct(secs) ==
    LET yd == days_to_yearsdays(secs \div 86400)
        md == MonthDay(days_per_month_table(yd.year), 1, yd.days)
        rem == secs % 86400
    IN  [year |-> yd.year, month |-> md.month, day |-> md.day,
         hour |-> rem \div 3600, minute |-> (rem % 3600) \div 60,
         second |-> rem % 60]

dt_year(secs) == datetimestruct(secs).year

dt_month(secs) == datetimestruct(secs).month

dt_dayofweek(secs) ==
    LET dts == datetimestruct(secs) IN dayofweek(dts.year, dts.month, dts.day)

dt_day(secs) == datetimestruct(secs).day

dt_hour(secs) == datetimestruct(secs).hour

dt_minute(secs) == datetimestruct(secs).minute

dt_second(secs) == datetimestruct(secs).second

\* ---------------------------------------------------------- Feature Deriver
\* The seven pickup_* columns, in the order they are appended.
pickup_features(secs) ==
    [c \in {"pickup_year", "pickup_month", "pickup_dayofweek", "pickup_day",
            "pickup_hour", "pickup_minute", "pickup_second"} |->
        CASE c = "pickup_year" -> dt_year(secs)
          [] c = "pickup_month" -> dt_month(secs)
          [] c = "pickup_dayofweek" -> dt_dayofweek(secs)
          [] c = "pickup_day" -> dt_day(secs)
          [] c = "pickup_hour" -> dt_hour(secs)
          [] c = "pickup_minute" -> dt_minute(secs)
          [] OTHER -> dt_second(secs)]

pickup_columns ==
    << "pickup_year", "pickup_month", "pickup_dayofweek", "pickup_day",
       "pickup_hour", "pickup_minute", "pickup_second" >>

dropped_columns ==
    {"ehail_fee", "VendorID", "lpep_pickup_datetime", "lpep_dropoff_datetime"}

\* feature_extraction(df): append the seven pickup_* columns computed from
\* lpep_pickup_datetime, then drop the four unused columns.
feature_extraction(frame) ==
    LET Kept(c) == c \notin dropped_columns
        cols == SelectSeq(frame.columns \o pickup_columns, Kept)
    IN  [columns |-> cols,
         rows |-> [i \in DOMAIN frame.rows |->
                    [c \in Range(cols) |->
                        IF c \in Range(pickup_columns)
                        THEN Some(pickup_features(
                                frame.rows[i]["lpep_pickup_datetime"][1])[c])
                        ELSE frame.rows[i][c]]]]

\* ------------------------------------------------------------- Preprocessor
numerical ==
    << "RatecodeID", "PULocationID", "DOLocationID",
       "passenger_count", "trip_distance", "fare_amount", "extra", "mta_tax",
       "tip_amount", "tolls_amount", "improvement_surcharge", "total_amount",
       "payment_type", "trip_type", "congestion_surcharge",
       "pickup_year", "pickup_month", "pickup_dayofweek", "pickup_day",
       "pickup_hour", "pickup_minute", "pickup_second" >>

categorical == <<"store_and_fwd_flag">>

\* A matrix entry is a real number r kept exactly as its sign and its
\* square as a reduced fraction sq_num / sq_den (a standardized value is a
\* rational over a square root). The cast to float32 rounds r; it is exact
\* on 0 and 1 and keeps distinct the values the model distinguishes.
Real(sgn, sq_num, sq_den) ==
    LET g == GCD(sq_num, sq_den)
    IN  IF sq_num = 0 THEN [sgn |-> 0, sq_num |-> 0, sq_den |-> 1]
        ELSE [sgn |-> sgn, sq_num |-> sq_num \div g, sq_den |-> sq_den \div g]

Sign(x) == IF x < 0 THEN -1 ELSE IF x = 0 THEN 0 ELSE 1

Zero == Real(0, 0, 1)

One == Real(1, 1, 1)

\* A scaler that standardizes with parameters fixed beforehand (mean 0,
\* scale 1) instead of the batch's own.
StandardScalerFixed(xs) == [i \in DOMAIN xs |-> Real(Sign(xs[i]), xs[i] * xs[i], 1)]

\* StandardScaler().fit_transform on one column: mean and (population)
\* standard deviation are those of the column itself; a zero deviation is
\* replaced by 1. With n values of sum S and sum of squares Q,
\* (x - S/n) / sqrt(Q/n - (S/n)^2) = (n*x - S) / sqrt(n*Q - S^2).
StandardScaler(xs) ==
    LET n == Len(xs)
        S == SumSeq(xs)
        Q == SumSeq([i \in DOMAIN xs |-> xs[i] * xs[i]])
        D == n * Q - S * S
    IN  [i \in DOMAIN xs |->
            IF D = 0 THEN Real(Sign(n * xs[i] - S), (n * xs[i] - S) * (n * xs[i] - S), n * n)
            ELSE Real(Sign(n * xs[i] - S), (n * xs[i] - S) * (n * xs[i] - S), D)]

\* Flag texts in the order strings sort.
FlagOrder == <<"N", "X", "Y">>

\* Categories listed in reverse of the sorted order.
CategoriesReversed(xs) ==
    LET Seen(c) == c \in Range(xs) IN Reverse(SelectSeq(FlagOrder, Seen))

\* OneHotEncoder().fit: the categories are the distinct values of the
\* column fitted on, sorted.
Categories(xs) ==
    LET Seen(c) == c \in Range(xs) IN SelectSeq(FlagOrder, Seen)

\* OneHotEncoder transform of one value: one indicator per category.
OneHot(cats, x) == [k \in DOMAIN cats |-> IF cats[k] = x THEN One ELSE Zero]

FlagFeature(c) ==
    CASE c = "N" -> "cat__store_and_fwd_flag_N"
      [] c = "Y" -> "cat__store_and_fwd_flag_Y"
      [] OTHER -> "cat__store_and_fwd_flag_X"

Values(frame, c) == [i \in DOMAIN frame.rows |-> frame.rows[i][c][1]]

\* preprocess(df): ColumnTransformer.fit_transform on df[numerical +
\* categorical]: the scaled numerical columns, then the indicator columns.
\* names are the transformer's output features (the array itself carries
\* none), values the matrix, one row per record.
preprocess(frame) ==
    LET scaled == [k \in DOMAIN numerical |-> StandardScaler(Values(frame, numerical[k]))]
        flags == Values(frame, categorical[1])
        cats == Categories(flags)
    IN  [names |-> numerical \o [k \in DOMAIN cats |-> FlagFeature(cats[k])],
         values |-> [i \in DOMAIN frame.rows |->
                        [k \in DOMAIN numerical |-> scaled[k][i]]
                            \o OneHot(cats, flags[i])]]

EmptyMatrix == [names |-> <<>>, values |-> <<>>]

\* ---------------------------------------------------------- Inference Engine
\* The loaded artifact's input layout: the numerical columns, then one
\* indicator per value of the flag's vocabulary.
feature_names_in_ ==
    numerical \o <<"cat__store_and_fwd_flag_N", "cat__store_and_fwd_flag_Y">>

n_features_in_ == Len(feature_names_in_)

\* The artifact accepts a matrix whose rows have the width it was trained on.
model_accepts(X) == \A i \in DOMAIN X : Len(X[i]) = n_features_in_

\* model.predict on an accepted matrix: one estimate per row, a fixed
\* function of the row (kept uninterpreted).
model_predict(X) == [i \in DOMAIN X |-> [model_of |-> X[i]]]

\* The matrix as handed to model.predict: X_processed itself.
ModelInput(X) == X.values

\* ------------------------------------------------------------------ predict
NoError == [kind |-> "none", stage |-> "none", count |-> 0]

Init ==
    /\ pc = "idle"
    /\ data = <<>>
    /\ df = EmptyFrame
    /\ failed_expectations = <<>>
    /\ X_processed = EmptyMatrix
    /\ preds = <<>>
    /\ error = NoError
    /\ reached = {}

\* df = pd.DataFrame(data["data"], columns=columns), the first statement of
\* predict, for the request body d.
Receive(d) ==
    /\ data' = d
    /\ df' = DataFrame(d, columns)
    /\ pc' = "validate"
    /\ failed_expectations' = <<>>
    /\ X_processed' = EmptyMatrix
    /\ preds' = <<>>
    /\ error' = NoError
    /\ reached' = {}

\* POST /predict arrives: any batch of 1..MaxRows records of Rows, under any
\* of the key layouts.
predict ==
    /\ pc = "idle"
    /\ \E keys \in KeyLayouts : \E n \in 1..MaxRows :
        \E batch \in [1..n -> Rows] :
            Receive(Body(keys, batch))

\* POST /predict arrives with a single record of the calendar of pick-up
\* texts.
predict_calendar ==
    /\ pc = "idle"
    /\ \E ts \in CalendarTexts : Receive(Body(columns, <<TripRecord("N", ts, 1)>>))

\* validate_input_data(df): raises ValueError carrying the failed
\* expectations and their number, or returns True.
validate_input_data ==
    /\ pc = "validate"
    /\ LET failed == FailedExpectations(df)
       IN  /\ failed_expectations' = failed
           /\ IF failed # <<>>
              THEN /\ error' = [kind |-> "ValueError", stage |-> "validate",
                                count |-> Len(failed)]
                   /\ pc' = "raised"
              ELSE /\ error' = error
                   /\ pc' = "to_datetime"
    /\ reached' = reached \cup {"validate"}
    /\ UNCHANGED <<data, df, X_processed, preds>>

\* df[col] = pd.to_datetime(df[col]) for the pick-up and drop-off columns:
\* raises on a text that is no date-time.
convert_dates ==
    /\ pc = "to_datetime"
    /\ LET cols == {"lpep_pickup_datetime", "lpep_dropoff_datetime"}
           ok == \A i \in DOMAIN df.rows : \A c \in cols : Parseable(df.rows[i][c][1])
       IN  IF ok
           THEN /\ df' = [df EXCEPT !.rows =
                            [i \in DOMAIN df.rows |->
                                [c \in Range(df.columns) |->
                                    IF c \in cols
                                    THEN Some(to_datetime(df.rows[i][c][1]))
                                    ELSE df.rows[i][c]]]]
                /\ error' = error
                /\ pc' = "feature_extraction"
           ELSE /\ df' = df
                /\ error' = [kind |-> "ValueError", stage |-> "to_datetime", count |-> 0]
                /\ pc' = "raised"
    /\ reached' = reached \cup {"to_datetime"}
    /\ UNCHANGED <<data, failed_expectations, X_processed, preds>>

\* df = feature_extraction(df)
extract_features ==
    /\ pc = "feature_extraction"
    /\ df' = feature_extraction(df)
    /\ pc' = "preprocess"
    /\ reached' = reached \cup {"feature_extraction"}
    /\ UNCHANGED <<data, failed_expectations, X_processed, preds, error>>

\* X_processed = preprocess(df)
run_preprocess ==
    /\ pc = "preprocess"
    /\ X_processed' = preprocess(df)
    /\ pc' = "model_predict"
    /\ reached' = reached \cup {"preprocess"}
    /\ UNCHANGED <<data, df, failed_expectations, preds, error>>

\* preds = model.predict(X_processed): the artifact refuses a matrix whose
\* width is not the width it was trained on.
run_model ==
    /\ pc = "model_predict"
    /\ LET X == ModelInput(X_processed)
       IN  IF model_accepts(X)
           THEN /\ preds' = model_predict(X)
                /\ error' = error
                /\ pc' = "return"
           ELSE /\ preds' = preds
                /\ error' = [kind |-> "ValueError", stage |-> "model_predict", count |-> 0]
                /\ pc' = "raised"
    /\ reached' = reached \cup {"model_predict"}
    /\ UNCHANGED <<data, df, failed_expectations, X_processed>>

\* return {"predicted_trip_duration_minutes": preds.tolist()}, or the
\* exception leaves the handler: the request is over.
respond ==
    /\ pc \in {"return", "raised"}
    /\ pc' = "idle"
    /\ data' = <<>>
    /\ df' = EmptyFrame
    /\ failed_expectations' = <<>>
    /\ X_processed' = EmptyMatrix
    /\ preds' = <<>>
    /\ error' = NoError
    /\ reached' = {}

Pipeline ==
    \/ validate_input_data
    \/ convert_dates
    \/ extract_features
    \/ run_preprocess
    \/ run_model
    \/ respond

Next == predict \/ Pipeline

Spec == Init /\ [][Next]_vars

\* The same handler fed single records over a calendar of pick-up times.
NextCalendar == predict_calendar \/ Pipeline

SpecCalendar == Init /\ [][NextCalendar]_vars

\* ================================================================== claims
\* The cell the record submitted as data[i] carries for a contract column:
\* null when the record lacks the key.
Submitted(i, c) ==
    IF c \in Range(data[i].keys) THEN data[i].vals[c] ELSE NULL

LaterStages == {"to_datetime", "feature_extraction", "preprocess", "model_predict"}

\* The request was refused by validate_input_data and nothing after it ran.
RefusedAtGate ==
    /\ pc = "raised"
    /\ error.kind = "ValueError"
    /\ error.stage = "validate"
    /\ preds = <<>>
    /\ reached \cap LaterStages = {}

\* Before the gate has run nothing else has, and once it has run the request
\* is refused there.
StopsAtGate ==
    IF "validate" \in reached THEN RefusedAtGate
    ELSE pc = "validate" /\ preds = <<>> /\ reached = {}

\* C1: whenever a submitted record's key sequence is not exactly the
\* contract's ordered column list, validation fails and no prediction is
\* returned.
C1_KeyOrderRejected ==
    (\E i \in DOMAIN data : data[i].keys # columns) => StopsAtGate

\* C2: a batch with a null or missing value in any contract column of any
\* row is refused by validation: no prediction for any row, and
\* feature_extraction, preprocess and model.predict are never reached.
C2_NullBatchFailsEntirely ==
    (\E i \in DOMAIN data : \E c \in Range(columns) : IsNull(Submitted(i, c)))
        => StopsAtGate

\* A refused batch of two records of which one has a null and the other has
\* none.
C2_Witness ==
    /\ RefusedAtGate
    /\ Len(data) = 2
    /\ \E c \in Range(columns) : IsNull(Submitted(1, c))
    /\ \A c \in Range(columns) : ~IsNull(Submitted(2, c))

\* C3: a batch in which some row's store_and_fwd_flag is not "Y" or "N" is
\* refused by validation: no prediction, not even for the rows whose flag
\* is valid.
C3_FlagOutsideSetFailsEntirely ==
    (\E i \in DOMAIN data :
        Submitted(i, "store_and_fwd_flag") \notin {Some("Y"), Some("N")})
        => StopsAtGate

\* A refused batch without any null whose first record has a valid flag and
\* whose second has flag "X": the only failed expectation is the value set.
C3_Witness ==
    /\ RefusedAtGate
    /\ Len(data) = 2
    /\ Submitted(1, "store_and_fwd_flag") = Some("Y")
    /\ Submitted(2, "store_and_fwd_flag") = Some("X")
    /\ Len(failed_expectations) = 1
    /\ failed_expectations[1].kind = "in_set"

\* The frame of record i alone.
Alone(frame, i) == [frame EXCEPT !.rows = <<frame.rows[i]>>]

\* C4: the matrix row produced for a record is the same whichever other
\* records share its batch, including when it is the only record.
C4_RowIndependentOfBatch ==
    "preprocess" \in reached =>
        \A i \in DOMAIN df.rows :
            X_processed.values[i] = preprocess(Alone(df, i)).values[1]

\* C5: the matrix of every validated batch has the 22 numerical columns
\* plus one indicator column per value of the fixed vocabulary {"Y","N"},
\* whichever flag values occur in the batch.
C5_WidthFixed ==
    "preprocess" \in reached =>
        \A i \in DOMAIN X_processed.values :
            Len(X_processed.values[i]) = Len(numerical) + Cardinality(value_set)

ViolatedChecks(frame) ==
    Cardinality({c \in Range(columns) :
                    \E i \in DOMAIN frame.rows : frame.rows[i][c] = NULL})
    + (IF \E i \in DOMAIN frame.rows :
            /\ frame.rows[i]["store_and_fwd_flag"] # NULL
            /\ frame.rows[i]["store_and_fwd_flag"] \notin {Some("Y"), Some("N")}
       THEN 1 ELSE 0)
    + (IF frame.columns # columns THEN 1 ELSE 0)

RECURSIVE DaysBeforeYear(_)
DaysBeforeYear(y) ==
    IF y <= 2023 THEN 0
    ELSE DaysBeforeYear(y - 1)
            + (IF (y - 1) % 4 = 0 /\ ((y - 1) % 100 # 0 \/ (y - 1) % 400 = 0)
               THEN 366 ELSE 365)

RECURSIVE DaysBeforeMonth(_, _)
DaysBeforeMonth(y, m) ==
    IF m = 1 THEN 0
    ELSE DaysBeforeMonth(y, m - 1)
            + (CASE (m - 1) \in {4, 6, 9, 11} -> 30
                 [] (m - 1) = 2 ->
                        (IF y % 4 = 0 /\ (y % 100 # 0 \/ y % 400 = 0) THEN 29 ELSE 28)
                 [] OTHER -> 31)

Weekday(y, m, d) == (6 + DaysBeforeYear(y) + DaysBeforeMonth(y, m) + (d - 1)) % 7

\* C8: for every row, feature_extraction yields the exact calendar
\* projection of the row's pickup timestamp: year, month, day of week with
\* Monday = 0, day of month, hour, minute, second; 2024-03-11 14:05:09
\* gives (2024, 3, 0, 11, 14, 5, 9).
C8_PickupFeaturesExact ==
    "feature_extraction" \in reached =>
        \A i \in DOMAIN df.rows :
            LET text == Submitted(i, "lpep_pickup_datetime")[1]
                r == df.rows[i]
            IN  /\ r["pickup_year"] = Some(text[1])
                /\ r["pickup_month"] = Some(text[2])
                /\ r["pickup_dayofweek"] = Some(Weekday(text[1], text[2], text[3]))
                /\ r["pickup_day"] = Some(text[3])
                /\ r["pickup_hour"] = Some(text[4])
                /\ r["pickup_minute"] = Some(text[5])
                /\ r["pickup_second"] = Some(text[6])
                /\ text = TsA => r["pickup_dayofweek"] = Some(0)

\* The features of 2024-03-11 14:05:09 have been extracted.
C8_Witness ==
    /\ "feature_extraction" \in reached
    /\ Submitted(1, "lpep_pickup_datetime") = Some(TsA)
    /\ df.rows[1]["pickup_dayofweek"] = Some(0)
    /\ df.rows[1]["pickup_second"] = Some(9)

\* C9: a batch with a pickup timestamp that is no date-time is refused by
\* validate_input_data, so no error arises after the gate from it.
C9_UnparseableRejectedByGate ==
    (\E i \in DOMAIN data :
        /\ ~IsNull(Submitted(i, "lpep_pickup_datetime"))
        /\ ~Parseable(Submitted(i, "lpep_pickup_datetime")[1]))
        => StopsAtGate

\* C10: for a valid batch of exactly one record, preprocess returns the
\* same matrix whatever the record holds: 22 zeros, then a single indicator
\* equal to 1.
C10_SingleRecordMatrixConstant ==
    ("preprocess" \in reached /\ Len(data) = 1) =>
        X_processed.values = << [k \in DOMAIN numerical |-> Zero] \o <<One>> >>

\* A single record with flag "Y" and distance 2 has been preprocessed.
C10_Witness ==
    /\ "preprocess" \in reached
    /\ Len(data) = 1
    /\ Submitted(1, "store_and_fwd_flag") = Some("Y")
    /\ Submitted(1, "trip_distance") = Some(2)
    /\ Len(X_processed.values[1]) = Len(numerical) + 1

====
